---- MODULE Spec2Model ----
(***************************************************************************)
(* A model of convert.py: the TEI parser (parse_tei, get_paragraph_content,*)
(* parse_table), the ODT renderer (create_odt) and the directory sweep     *)
(* (process_pdfs_to_odt).                                                  *)
(*                                                                         *)
(* Python strings are sequences of one-character strings; None is a value  *)
(* of its own, different from every string, the empty string included.     *)
(***************************************************************************)
EXTENDS Integers, Sequences, FiniteSets, TLC

VARIABLES
    pc,              \* position of the function under study
    bibliography,    \* parse_tei: the biblStruct elements found by the xpath
    references,      \* parse_tei: the references list being built
    author_elems,    \* parse_tei: the author elements found by the xpath
    author_idx,      \* parse_tei: how many author elements the loop has taken
    authors,         \* parse_tei: the authors list being built
    result,          \* parse_tei: what the call returns
    paragraph_elem,  \* get_paragraph_content: its argument
    content,         \* get_paragraph_content: the list it returns
    body,            \* parse_tei: the child elements of the body element
    todo,            \* parse_tei: the elements process_body_elements has yet to visit
    body_elements,   \* parse_tei: the blocks collected so far
    parsed_data,     \* create_odt: the document model it renders
    doc,             \* create_odt: doc.text, the elements added so far
    body_idx,        \* create_odt: how many body elements the loop has taken
    ref_idx,         \* create_odt: how many references the loop has taken
    output_file,     \* create_odt: the file at the output path
    log,             \* the lines log() has printed
    source_folder,   \* the PDF files under SOURCE_FOLDER, subdirectories included
    tei_folder,      \* the files of TEI_FOLDER, by name
    output_folder,   \* the files of OUTPUT_FOLDER, by name
    pdf_files,       \* process_pdfs_to_odt: the PDFs the first loop has yet to take
    tei_files,       \* process_pdfs_to_odt: the markup files the second loop has yet to take
    posted,          \* the PDFs sent to the extraction service
    written,         \* the names of the files opened for writing
    folders_at_start \* TEI_FOLDER and OUTPUT_FOLDER as the sweep found them

vRefs == <<bibliography, references>>
vAuthors == <<author_elems, author_idx, authors>>

vPara == <<paragraph_elem, content>>

vBody == <<body, todo, body_elements>>

vOdt == <<parsed_data, doc, body_idx, ref_idx, output_file>>
vSweep == <<source_folder, tei_folder, output_folder, pdf_files, tei_files, posted,
            written, folders_at_start>>

vars == <<pc, result, log, vRefs, vAuthors, vPara, vBody, vOdt, vSweep>>

\* ---------------------------------------------------------------- bounds
MaxRefs == 3
MaxAuthors == 2
MaxParaNodes == 2
MaxBodyNodes == 3
MaxOdtRefs == 3

\* -------------------------------------------------------- Python values
None == <<"None">>

\* What parse_tei hands back when it returns None; a returned document model
\* is a record of its fields and has model = TRUE.
ReturnedNone == [model |-> FALSE]

\* A string literal, one character per element.
Digits == <<"0", "1", "2", "3", "4", "5", "6", "7", "8", "9">>

RECURSIVE Str(_)
\* str(n) of a non-negative int: its decimal digits.
Str(n) == IF n < 10 THEN <<Digits[n + 1]>>
          ELSE Str(n \div 10) \o <<Digits[(n % 10) + 1]>>

RECURSIVE Join(_, _)
\* sep.join(parts) of a list of strings.
Join(sep, parts) ==
    IF parts = <<>> THEN <<>>
    ELSE IF Len(parts) = 1 THEN parts[1]
    ELSE parts[1] \o sep \o Join(sep, Tail(parts))

IsSpace(c) == c \in {" ", "\n", "\t"}

RECURSIVE LStripSpace(_)
LStripSpace(s) == IF s # <<>> /\ IsSpace(Head(s)) THEN LStripSpace(Tail(s)) ELSE s

RECURSIVE RStripSpace(_)
RStripSpace(s) ==
    IF s # <<>> /\ IsSpace(s[Len(s)]) THEN RStripSpace(SubSeq(s, 1, Len(s) - 1)) ELSE s

\* s.strip()
Strip(s) == RStripSpace(LStripSpace(s))

\* ------------------------------------------------ parse_tei: references
RefPrefix == <<"r", "e", "f", "_">>

\* A fallback id numbered from the count of references, without the + 1.
SynthIdFromZero(refs) == RefPrefix \o Str(Len(refs))

\* The fallback id "ref_" + str(len(references) + 1).
SynthId(refs) == RefPrefix \o Str(Len(refs) + 1)

\* ref.get("{http://www.w3.org/XML/1998/namespace}id", default)
GetXmlId(ref, default) == IF ref.xml_id # None THEN ref.xml_id ELSE default

\* ' '.join(ref.itertext()).strip()
RefText(ref) == Strip(Join(<<" ">>, ref.itertext))

\* The xml:id values a biblStruct may carry: a service-style id and the ids
\* that have the form of the fallback.
ExplicitIds == {<<"b", "0">>} \cup {RefPrefix \o Str(n) : n \in 1..MaxRefs}

BiblTexts == {<<<<"D", "o", "e">>>>, <<<<" ">>, <<"A">>, <<"\n">>>>}

BiblStructs == [xml_id : ExplicitIds \cup {None}, itertext : BiblTexts]

SeqsUpTo(S, n) == UNION {[1..k -> S] : k \in 0..n}

\* xml:id values are unique within one XML document.
DistinctXmlIds(bib) ==
    \A i, j \in 1..Len(bib) :
        (i # j /\ bib[i].xml_id # None) => bib[i].xml_id # bib[j].xml_id

Bibliographies == {b \in SeqsUpTo(BiblStructs, MaxRefs) : DistinctXmlIds(b)}

RefsIdle == bibliography = <<>> /\ references = <<>>

AuthorsIdle == author_elems = <<>> /\ author_idx = 0 /\ authors = <<>>

ParaIdle == paragraph_elem = None /\ content = <<>>

BodyIdle == body = <<>> /\ todo = <<>> /\ body_elements = <<>>

NoFile == [exists |-> FALSE]

OdtIdle ==
    /\ parsed_data = ReturnedNone
    /\ doc = <<>>
    /\ body_idx = 0
    /\ ref_idx = 0
    /\ log = <<>>
    /\ output_file = NoFile

SweepIdle ==
    /\ source_folder = {}
    /\ tei_folder = <<>>
    /\ output_folder = <<>>
    /\ pdf_files = {}
    /\ tei_files = {}
    /\ posted = {}
    /\ written = {}
    /\ folders_at_start = <<>>

\* What a specification of the references loop leaves alone.
notRefs == <<log, vAuthors, vPara, vBody, vOdt, vSweep>>

InitRefs ==
    /\ pc = "references"
    /\ bibliography \in Bibliographies
    /\ references = <<>>
    /\ result = ReturnedNone
    /\ AuthorsIdle
    /\ ParaIdle
    /\ BodyIdle
    /\ OdtIdle
    /\ SweepIdle

\* One iteration of `for ref in bibliography`.
RefStep ==
    /\ pc = "references"
    /\ Len(references) < Len(bibliography)
    /\ LET ref == bibliography[Len(references) + 1]
           ref_id == GetXmlId(ref, SynthId(references))
           ref_text == RefText(ref)
       IN references' = Append(references, [id |-> ref_id, text |-> ref_text])
    /\ UNCHANGED <<pc, bibliography, result, notRefs>>

\* The loop is over: parse_tei returns the document model.
RefsReturn ==
    /\ pc = "references"
    /\ Len(references) = Len(bibliography)
    /\ pc' = "done"
    /\ result' = [model |-> TRUE, references |-> references]
    /\ UNCHANGED <<bibliography, references, notRefs>>

NextRefs == RefStep \/ RefsReturn

SpecRefs == InitRefs /\ [][NextRefs]_vars

\* C1: the ids of the references of a returned document model are pairwise
\* distinct, whatever mix of explicit and missing xml:id the source has.
C1_IdsDistinct ==
    pc = "done" =>
        \A i, j \in 1..Len(result.references) :
            i # j => result.references[i].id # result.references[j].id

\* Number of entries without an xml:id among the first n entries.
RECURSIVE IdLessUpTo(_, _)
IdLessUpTo(bib, n) ==
    IF n = 0 THEN 0
    ELSE IdLessUpTo(bib, n - 1) + (IF bib[n].xml_id = None THEN 1 ELSE 0)

\* C2 as claimed: the k-th reference without an xml:id receives "ref_k".
C2_KthIdLessGetsRefK ==
    pc = "done" =>
        \A i \in 1..Len(bibliography) :
            bibliography[i].xml_id = None =>
                result.references[i].id = RefPrefix \o Str(IdLessUpTo(bibliography, i))

\* C2 amended: a reference without an xml:id receives "ref_n", n being its
\* position among all the references, those with an explicit id included.
C2_IdLessGetsRefOfPosition ==
    pc = "done" =>
        /\ Len(result.references) = Len(bibliography)
        /\ \A i \in 1..Len(bibliography) :
               bibliography[i].xml_id = None =>
                   /\ result.references[i].id = RefPrefix \o Str(i)
                   /\ \A j \in 1..(i - 1) :
                          bibliography[j].xml_id = None =>
                              result.references[j].id # result.references[i].id

\* An id-less reference that follows a reference with an explicit id.
C2_Witness ==
    /\ pc = "done"
    /\ \E i, j \in 1..Len(bibliography) :
           /\ i < j
           /\ bibliography[i].xml_id # None
           /\ bibliography[j].xml_id = None
           /\ result.references[j].id = RefPrefix \o Str(j)

\* ---------------------------------------------------- parse_tei: authors
Absent == <<"Absent">>

\* persName.find('tei:forename') is an element or None; an element's .text
\* is None when the element holds no text before its first child.
NameTexts == {None, <<"J">>, <<"D", "o", "e">>}

AuthorElems == [persName : BOOLEAN,
                forename : {Absent} \cup NameTexts,
                surname : {Absent} \cup NameTexts]

\* The name_parts list built for one author element.
NameParts(author) ==
    IF author.persName
    THEN (IF author.forename # Absent THEN <<author.forename>> ELSE <<>>)
         \o (IF author.surname # Absent THEN <<author.surname>> ELSE <<>>)
    ELSE <<>>

\* str.join raises TypeError on an item that is not a string.
JoinRaises(parts) == \E i \in 1..Len(parts) : parts[i] = None

notAuthors == <<log, vRefs, vPara, vBody, vOdt, vSweep>>

InitAuthors ==
    /\ pc = "authors"
    /\ author_elems \in SeqsUpTo(AuthorElems, MaxAuthors)
    /\ author_idx = 0
    /\ authors = <<>>
    /\ result = ReturnedNone
    /\ RefsIdle
    /\ ParaIdle
    /\ BodyIdle
    /\ OdtIdle
    /\ SweepIdle
\* One iteration of `for author in ...` in which ' '.join succeeds.
AuthorStep ==
    /\ pc = "authors"
    /\ author_idx < Len(author_elems)
    /\ LET author == author_elems[author_idx + 1]
           name_parts == NameParts(author)
           full_name == Join(<<" ">>, name_parts)
       IN /\ ~JoinRaises(name_parts)
          /\ authors' = IF full_name # <<>> THEN Append(authors, full_name) ELSE authors
    /\ author_idx' = author_idx + 1
    /\ UNCHANGED <<pc, author_elems, result, notAuthors>>

\* ' '.join raises: the except clause of parse_tei logs and returns None.
AuthorRaise ==
    /\ pc = "authors"
    /\ author_idx < Len(author_elems)
    /\ JoinRaises(NameParts(author_elems[author_idx + 1]))
    /\ pc' = "done"
    /\ result' = ReturnedNone
    /\ UNCHANGED <<author_elems, author_idx, authors, notAuthors>>

\* The loop is over: the authors list goes into the returned model.
AuthorsReturn ==
    /\ pc = "authors"
    /\ author_idx = Len(author_elems)
    /\ pc' = "done"
    /\ result' = [model |-> TRUE, authors |-> authors]
    /\ UNCHANGED <<author_elems, author_idx, authors, notAuthors>>

NextAuthors == AuthorStep \/ AuthorRaise \/ AuthorsReturn

SpecAuthors == InitAuthors /\ [][NextAuthors]_vars
\* The name the claim gives an entry: forename and surname, those present,
\* joined by a space, the text of an empty element being the empty string.
ClaimedName(author) ==
    LET txt(t) == IF t = None THEN <<>> ELSE t
    IN IF author.persName
       THEN Join(<<" ">>,
                 (IF author.forename # Absent THEN <<txt(author.forename)>> ELSE <<>>)
                 \o (IF author.surname # Absent THEN <<txt(author.surname)>> ELSE <<>>))
       ELSE <<>>

RECURSIVE ClaimedAuthors(_)
ClaimedAuthors(elems) ==
    IF elems = <<>> THEN <<>>
    ELSE (IF ClaimedName(Head(elems)) # <<>> THEN <<ClaimedName(Head(elems))>> ELSE <<>>)
         \o ClaimedAuthors(Tail(elems))

\* C5: whatever the author entries (forename and surname each absent, empty
\* or with text), parse_tei returns a document model, and its authors are the
\* space-joined names in source order, the empty ones skipped.
C5_AuthorsAlwaysParsed ==
    pc = "done" =>
        /\ result.model
        /\ result.authors = ClaimedAuthors(author_elems)
\* --------------------------------------------------- get_paragraph_content
\* An element of a paragraph's subtree: its tag, its type and target
\* attributes (Absent when the attribute is missing), its .text and .tail
\* (None when there is no such text) and its child elements.
S_See == <<"S", "e", "e", " ">>
S_Smith == <<"S", "m", "i", "t", "h", " ", "2", "0", "2", "0">>
S_Details == <<" ", "f", "o", "r", " ", "d", "e", "t", "a", "i", "l", "s", ".">>
S_HashB0 == <<"#", "b", "0">>

ParaTargets == {Absent, S_HashB0, <<"#", "#", "b">>}

\* tag and attributes of the child elements: citations, other refs, markup.
ParaLabels ==
    {[tag |-> "ref", type |-> <<"b", "i", "b", "r">>, target |-> t] : t \in ParaTargets}
    \cup {[tag |-> "ref", type |-> <<"f", "i", "g", "u", "r", "e">>, target |-> S_HashB0],
          [tag |-> "hi", type |-> Absent, target |-> Absent]}

ElemTexts == {None, S_Smith}

ElemTails == {None, S_Details}

RECURSIVE ParaTrees(_)
RECURSIVE ParaForests(_)
\* The elements with exactly n elements in their subtree, themselves included.
ParaTrees(n) ==
    {[tag |-> l.tag, type |-> l.type, target |-> l.target,
      text |-> tx, tail |-> tl, children |-> f] :
        l \in ParaLabels, tx \in ElemTexts, tl \in ElemTails, f \in ParaForests(n - 1)}

\* The sequences of sibling elements with exactly n elements in all.
ParaForests(n) ==
    IF n = 0 THEN {<<>>}
    ELSE UNION {{<<t>> \o f : t \in ParaTrees(k), f \in ParaForests(n - k)} : k \in 1..n}

\* The paragraphs whose subtree holds up to n elements.
ParagraphElems(n) ==
    {[tag |-> "p", type |-> Absent, target |-> Absent, text |-> tx, tail |-> None,
      children |-> f] :
        tx \in {None, S_See}, f \in UNION {ParaForests(k) : k \in 0..n}}

\* Python truth of an optional string: neither None nor ''.
Truthy(s) == s # None /\ s # <<>>

\* elem.get(name, default)
GetAttr(value, default) == IF value = Absent THEN default ELSE value

\* The target taken as it stands, fragment marker and all.
LStripHashNot(s) == s

RECURSIVE LStripHash(_)
\* s.lstrip('#'): every leading '#' goes.
LStripHash(s) == IF s # <<>> /\ Head(s) = "#" THEN LStripHash(Tail(s)) ELSE s

RECURSIVE IterText(_)
RECURSIVE IterTextOfChildren(_)
\* list(elem.itertext()): the text runs inside elem in document order, the
\* tails of its descendants included, its own tail not.
IterText(elem) ==
    (IF elem.text # None THEN <<elem.text>> ELSE <<>>) \o IterTextOfChildren(elem.children)

IterTextOfChildren(children) ==
    IF children = <<>> THEN <<>>
    ELSE LET child == Head(children)
         IN IterText(child)
            \o (IF child.tail # None THEN <<child.tail>> ELSE <<>>)
            \o IterTextOfChildren(Tail(children))

TextSpan(t) == [type |-> "text", text |-> t]

RefSpan(t, target) == [type |-> "ref", text |-> t, target |-> target]

IsBibrRef(child) == child.tag = "ref" /\ GetAttr(child.type, None) = <<"b", "i", "b", "r">>

\* A walk that forgets the text after a child.
TailSpanDropped(child) == <<>>

\* `if child.tail: content.append(...)`, after the child's own spans.
TailSpan(child) == IF Truthy(child.tail) THEN <<TextSpan(child.tail)>> ELSE <<>>

RECURSIVE Recurse(_)
RECURSIVE RecurseChildren(_)
\* recurse(node): what one call appends to content.
Recurse(node) ==
    (IF Truthy(node.text) THEN <<TextSpan(node.text)>> ELSE <<>>)
    \o RecurseChildren(node.children)

\* The `for child in node` loop of recurse.
RecurseChildren(children) ==
    IF children = <<>> THEN <<>>
    ELSE LET child == Head(children)
         IN (IF IsBibrRef(child)
             THEN <<RefSpan(Join(<<>>, IterText(child)),
                            LStripHash(GetAttr(child.target, <<>>)))>>
             ELSE Recurse(child))
            \o TailSpan(child)
            \o RecurseChildren(Tail(children))

GetParagraphContent(elem) == Recurse(elem)

notPara == <<log, vRefs, vAuthors, vBody, vOdt, vSweep>>

InitPara ==
    /\ pc = "call"
    /\ paragraph_elem \in ParagraphElems(MaxParaNodes)
    /\ content = <<>>
    /\ result = ReturnedNone
    /\ RefsIdle
    /\ AuthorsIdle
    /\ BodyIdle
    /\ OdtIdle
    /\ SweepIdle

\* get_paragraph_content(paragraph_elem) runs and returns content.
CallGetParagraphContent ==
    /\ pc = "call"
    /\ content' = GetParagraphContent(paragraph_elem)
    /\ pc' = "done"
    /\ UNCHANGED <<paragraph_elem, result, notPara>>

NextPara == CallGetParagraphContent

SpecPara == InitPara /\ [][NextPara]_vars
\* The paragraph <p>See <ref type="bibr" target="#b0">Smith 2020</ref> for details.</p>
ExampleParagraph ==
    [tag |-> "p", type |-> Absent, target |-> Absent, text |-> S_See, tail |-> None,
     children |-> <<[tag |-> "ref", type |-> <<"b", "i", "b", "r">>, target |-> S_HashB0,
                     text |-> S_Smith, tail |-> S_Details, children |-> <<>>]>>]

RECURSIVE CitationsIn(_)
\* The citation elements of a paragraph in document order: the refs of type
\* bibr that no other such ref contains.
CitationsIn(children) ==
    IF children = <<>> THEN <<>>
    ELSE LET child == Head(children)
         IN (IF child.tag = "ref" /\ child.type = <<"b", "i", "b", "r">>
             THEN <<child>>
             ELSE CitationsIn(child.children))
            \o CitationsIn(Tail(children))

RECURSIVE RefSpanPositions(_, _)
\* The positions of the spans of type ref among the first n spans of c.
RefSpanPositions(c, n) ==
    IF n = 0 THEN <<>>
    ELSE RefSpanPositions(c, n - 1) \o (IF c[n].type = "ref" THEN <<n>> ELSE <<>>)

\* t is attr without its leading fragment markers.
IsWithoutLeadingHash(t, attr) ==
    /\ t = <<>> \/ Head(t) # "#"
    /\ \E k \in 0..Len(attr) :
          /\ \A i \in 1..k : attr[i] = "#"
          /\ t = SubSeq(attr, k + 1, Len(attr))

\* C4: the spans come in document order: the paragraph's leading text is the
\* first span, every citation element gives exactly one ref span carrying its
\* flattened text and its target without the leading '#', the citation's tail
\* is the text span right after it; the example gives [Text, Ref(b0), Text].
C4_SpansInDocumentOrder ==
    pc = "done" =>
        LET cites == CitationsIn(paragraph_elem.children)
            pos == RefSpanPositions(content, Len(content))
        IN /\ paragraph_elem.text # None => content[1] = TextSpan(paragraph_elem.text)
           /\ Len(pos) = Len(cites)
           /\ \A k \in 1..Len(cites) :
                 /\ content[pos[k]].text = Join(<<>>, IterText(cites[k]))
                 /\ IsWithoutLeadingHash(content[pos[k]].target,
                                         IF cites[k].target = Absent THEN <<>>
                                         ELSE cites[k].target)
                 /\ cites[k].tail # None =>
                       /\ pos[k] < Len(content)
                       /\ content[pos[k] + 1] = TextSpan(cites[k].tail)
           /\ paragraph_elem = ExampleParagraph =>
                 content = <<TextSpan(S_See), RefSpan(S_Smith, <<"b", "0">>),
                             TextSpan(S_Details)>>

\* The example paragraph has been walked.
C4_Witness ==
    /\ pc = "done"
    /\ paragraph_elem = ExampleParagraph
    /\ Len(content) = 3
    /\ content[2].type = "ref"

RECURSIVE ConcatTexts(_)
\* The text fields of the spans, one after the other.
ConcatTexts(c) == IF c = <<>> THEN <<>> ELSE Head(c).text \o ConcatTexts(Tail(c))

\* C10: the texts of the spans, concatenated in order, are the flattened text
\* of the paragraph, and the only spans with empty text are citations.
C10_TextPreserved ==
    pc = "done" =>
        /\ ConcatTexts(content) = Join(<<>>, IterText(paragraph_elem))
        /\ \A i \in 1..Len(content) :
              content[i].text = <<>> => content[i].type = "ref"

\* A walk of a paragraph whose non-citation child holds a citation, with text
\* before, inside and after.
C10_Witness ==
    /\ pc = "done"
    /\ Len(paragraph_elem.children) = 1
    /\ paragraph_elem.text # None
    /\ LET child == paragraph_elem.children[1]
       IN /\ child.tag = "hi"
          /\ child.tail # None
          /\ Len(child.children) = 1
          /\ child.children[1].tag = "ref"
          /\ child.children[1].type = <<"b", "i", "b", "r">>
          /\ child.children[1].tail # None
    /\ Len(content) = 4
\* ------------------------------------------ parse_tei: body, parse_table
\* A table element: its rows in document order, a row being its cell
\* elements and a cell the text runs inside it.
TableElems ==
    {<<>>,
     <<<<<<<<"a">>>>, <<<<" ">>, <<"b">>>>>>, <<<<<<"c">>, <<"\n">>>>, <<>>>>>>}

HeadTexts == {<<<<" ", "I", "n", "t", "r", "o">>>>, <<>>}

\* The child elements of body and div that are not div: headings, paragraphs,
\* figures (typed table or not, with a table child or without), anything else.
BodyLeaves ==
    {[tag |-> "head", type |-> Absent, itertext |-> h, elem |-> None, table |-> Absent,
      children |-> <<>>] : h \in HeadTexts}
    \cup {[tag |-> "p", type |-> Absent, itertext |-> <<>>, elem |-> e, table |-> Absent,
           children |-> <<>>] :
             e \in {ExampleParagraph, [ExampleParagraph EXCEPT !.children = <<>>]}}
    \cup {[tag |-> "figure", type |-> <<"t", "a", "b", "l", "e">>, itertext |-> <<>>,
           elem |-> None, table |-> t, children |-> <<>>] : t \in {Absent} \cup TableElems}
    \cup {[tag |-> "figure", type |-> Absent, itertext |-> <<>>, elem |-> None,
           table |-> <<>>, children |-> <<>>],
          [tag |-> "formula", type |-> Absent, itertext |-> <<>>, elem |-> None,
           table |-> Absent, children |-> <<>>]}

RECURSIVE BodyTrees(_)
RECURSIVE BodyForests(_)
\* The body-level elements made of exactly n elements.
BodyTrees(n) ==
    (IF n = 1 THEN BodyLeaves ELSE {})
    \cup {[tag |-> "div", type |-> Absent, itertext |-> <<>>, elem |-> None,
           table |-> Absent, children |-> f] : f \in BodyForests(n - 1)}

\* The sequences of sibling elements made of exactly n elements in all.
BodyForests(n) ==
    IF n = 0 THEN {<<>>}
    ELSE UNION {{<<t>> \o f : t \in BodyTrees(k), f \in BodyForests(n - k)} : k \in 1..n}

\* The bodies made of up to n elements.
Bodies(n) == UNION {BodyForests(k) : k \in 0..n}

\* parse_table's return values: None, or the rows_data list.
TableNone == [is_none |-> TRUE]

RowsData(rows) == [is_none |-> FALSE, rows |-> rows]

\* One row: ''.join(cell.itertext()).strip() of each cell.
CellsOf(row) == [i \in 1..Len(row) |-> Strip(Join(<<>>, row[i]))]

\* parse_table(figure_elem)
ParseTable(figure_elem) ==
    IF figure_elem.table = Absent THEN TableNone
    ELSE RowsData([i \in 1..Len(figure_elem.table) |-> CellsOf(figure_elem.table[i])])

notBody == <<log, vRefs, vAuthors, vPara, vOdt, vSweep>>

InitBody ==
    /\ pc = "body"
    /\ body \in Bodies(MaxBodyNodes)
    /\ todo = body
    /\ body_elements = <<>>
    /\ result = ReturnedNone
    /\ RefsIdle
    /\ AuthorsIdle
    /\ ParaIdle
    /\ OdtIdle
    /\ SweepIdle

\* tag == 'head'
BodyHead ==
    /\ pc = "body" /\ todo # <<>>
    /\ Head(todo).tag = "head"
    /\ body_elements' = Append(body_elements,
           [type |-> "heading", text |-> Strip(Join(<<>>, Head(todo).itertext))])
    /\ todo' = Tail(todo)
    /\ UNCHANGED <<pc, body, result, notBody>>

\* tag == 'p'
BodyP ==
    /\ pc = "body" /\ todo # <<>>
    /\ Head(todo).tag = "p"
    /\ body_elements' = Append(body_elements,
           [type |-> "paragraph", content |-> GetParagraphContent(Head(todo).elem)])
    /\ todo' = Tail(todo)
    /\ UNCHANGED <<pc, body, result, notBody>>

\* tag == 'div': the recursive call visits the children before the siblings.
BodyDiv ==
    /\ pc = "body" /\ todo # <<>>
    /\ Head(todo).tag = "div"
    /\ todo' = Head(todo).children \o Tail(todo)
    /\ UNCHANGED <<pc, body, body_elements, result, notBody>>

\* tag == 'figure' and elem.get('type') == 'table'
BodyFigureTable ==
    /\ pc = "body" /\ todo # <<>>
    /\ Head(todo).tag = "figure" /\ Head(todo).type = <<"t", "a", "b", "l", "e">>
    /\ body_elements' = Append(body_elements,
           [type |-> "table", content |-> ParseTable(Head(todo))])
    /\ todo' = Tail(todo)
    /\ UNCHANGED <<pc, body, result, notBody>>

\* Any other element is passed over.
BodyOther ==
    /\ pc = "body" /\ todo # <<>>
    /\ Head(todo).tag \notin {"head", "p", "div"}
    /\ ~(Head(todo).tag = "figure" /\ Head(todo).type = <<"t", "a", "b", "l", "e">>)
    /\ todo' = Tail(todo)
    /\ UNCHANGED <<pc, body, body_elements, result, notBody>>

\* The walk is over: body_elements goes into the returned model.
BodyReturn ==
    /\ pc = "body" /\ todo = <<>>
    /\ pc' = "done"
    /\ result' = [model |-> TRUE, body_elements |-> body_elements]
    /\ UNCHANGED <<body, todo, body_elements, notBody>>

NextBody == BodyHead \/ BodyP \/ BodyDiv \/ BodyFigureTable \/ BodyOther \/ BodyReturn

SpecBody == InitBody /\ [][NextBody]_vars

RECURSIVE TableFiguresWithTable(_)
\* How many table-typed figures, reachable through body and div, hold a
\* table element.
TableFiguresWithTable(elems) ==
    IF elems = <<>> THEN 0
    ELSE LET e == Head(elems)
         IN (IF e.tag = "div" THEN TableFiguresWithTable(e.children)
             ELSE IF /\ e.tag = "figure"
                     /\ e.type = <<"t", "a", "b", "l", "e">>
                     /\ e.table # Absent
                  THEN 1 ELSE 0)
            + TableFiguresWithTable(Tail(elems))

\* C3: a table-typed figure without a table element gives no Table block and
\* no error: the model has as many table blocks as there are table-typed
\* figures holding a table.
C3_NoBlockWithoutTable ==
    pc = "done" =>
        /\ result.model
        /\ Cardinality({i \in 1..Len(result.body_elements) :
                           result.body_elements[i].type = "table"})
               = TableFiguresWithTable(body)
\* ------------------------------------------------------------- create_odt
S_Abstract == <<"A", "b", "s", "t", "r", "a", "c", "t">>
S_References == <<"R", "e", "f", "e", "r", "e", "n", "c", "e", "s">>
S_Bibitem == <<" ", "b", "i", "b", "i", "t", "e", "m">>

\* odf nodes inside a paragraph.
TextNode(t) == [node |-> "text", text |-> t]

Link(href, t) == [node |-> "a", href |-> href, text |-> t]

BookmarkStart(name) == [node |-> "bookmark-start", name |-> name]

BookmarkEnd(name) == [node |-> "bookmark-end", name |-> name]

\* P(stylename=style) with the nodes added to it.
Para(style, nodes) == [el |-> "P", style |-> style, nodes |-> nodes]

\* P(stylename=style, text=t): an empty text adds no text node.
PText(style, t) == Para(style, IF t = <<>> THEN <<>> ELSE <<TextNode(t)>>)

\* P(text="")
BlankPara == PText("none", <<>>)

\* One content piece of a paragraph block, as added to the paragraph.
PieceNode(piece) ==
    IF piece.type = "text" THEN <<TextNode(piece.text)>>
    ELSE IF piece.type = "ref"
         THEN <<Link(<<"#">> \o piece.target, piece.text)>>
         ELSE <<>>

RECURSIVE PieceNodes(_)
PieceNodes(pieces) ==
    IF pieces = <<>> THEN <<>> ELSE PieceNode(Head(pieces)) \o PieceNodes(Tail(pieces))

\* The table construct of a rows list: one row per row, one cell per string.
OdtTableOf(rows) ==
    [el |-> "table",
     rows |-> [i \in 1..Len(rows) |->
                  [j \in 1..Len(rows[i]) |-> PText("BodyText", rows[i][j])]]]

\* `if table_data:` : neither None nor an empty list.
TableTruthy(table_data) == ~table_data.is_none /\ table_data.rows # <<>>

\* The paragraph of one reference: bookmark start, text and suffix, bookmark end.
ReferenceParagraph(ref) ==
    Para("BodyText",
         <<BookmarkStart(ref.id), TextNode(ref.text \o S_Bibitem), BookmarkEnd(ref.id)>>)

\* The statements of the try block of the references loop, by what they call.
RefFailPoints == {"log", "P", "BookmarkStart", "addText", "BookmarkEnd", "addElement", "blank"}

\* A loop that attaches the paragraph to the document before filling it.
AddedBeforeFailureAttachFirst(ref, at) ==
    IF at \in {"log", "P"} THEN <<>>
    ELSE IF at = "BookmarkStart" THEN <<Para("BodyText", <<>>)>>
    ELSE IF at = "addText" THEN <<Para("BodyText", <<BookmarkStart(ref.id)>>)>>
    ELSE IF at = "BookmarkEnd"
         THEN <<Para("BodyText", <<BookmarkStart(ref.id), TextNode(ref.text \o S_Bibitem)>>)>>
    ELSE <<ReferenceParagraph(ref)>>

\* What doc.text has gained when the statement `at` of the try block raises:
\* the paragraph is built detached and attached by the last statement but one.
AddedBeforeFailure(ref, at) ==
    IF at = "blank" THEN <<ReferenceParagraph(ref)>> ELSE <<>>

LogLine(msg, arg) == [msg |-> msg, arg |-> arg]

SampleBlocks ==
    <<[type |-> "heading", text |-> S_References],
      [type |-> "paragraph", content |-> GetParagraphContent(ExampleParagraph)],
      [type |-> "table", content |-> TableNone],
      [type |-> "table", content |-> RowsData(<<<<<<"a">>, <<>>>>>>)]>>

\* The references of a parsed document with n bibliography entries.
SampleReferences(n) ==
    [i \in 1..n |-> [id |-> RefPrefix \o Str(i), text |-> <<"R">> \o Str(i)]]

DocumentModels ==
    {[model |-> TRUE, title |-> <<"T">>, authors |-> a, abstract |-> ab,
      body_elements |-> b, references |-> SampleReferences(n)] :
        a \in {<<>>, <<<<"A">>, <<"B", " ", "C">>>>},
        ab \in {<<>>, <<"a", "b", "s">>},
        b \in {<<>>, SampleBlocks},
        n \in 0..MaxOdtRefs}

notOdt == <<vRefs, vAuthors, vPara, vBody, vSweep>>

InitOdt ==
    /\ pc = "odt_start"
    /\ parsed_data \in DocumentModels
    /\ doc = <<>>
    /\ body_idx = 0
    /\ ref_idx = 0
    /\ log = <<>>
    /\ output_file = NoFile
    /\ result = ReturnedNone
    /\ RefsIdle
    /\ AuthorsIdle
    /\ ParaIdle
    /\ BodyIdle
    /\ SweepIdle

\* The styles, the title, the authors line and the abstract.
OdtStart ==
    /\ pc = "odt_start"
    /\ doc' = <<PText("Title", parsed_data.title)>>
              \o (IF parsed_data.authors # <<>>
                  THEN <<PText("AuthorStyle", Join(<<",", " ">>, parsed_data.authors))>>
                  ELSE <<>>)
              \o (IF parsed_data.abstract # <<>>
                  THEN <<PText("Heading", S_Abstract),
                         PText("AbstractStyle", parsed_data.abstract)>>
                  ELSE <<>>)
    /\ log' = log \o <<LogLine("Adding title to the document", <<>>)>>
              \o (IF parsed_data.authors # <<>>
                  THEN <<LogLine("Adding authors", Join(<<",", " ">>, parsed_data.authors))>>
                  ELSE <<>>)
              \o (IF parsed_data.abstract # <<>>
                  THEN <<LogLine("Adding abstract to the document", <<>>)>>
                  ELSE <<>>)
    /\ pc' = "odt_body"
    /\ UNCHANGED <<parsed_data, body_idx, ref_idx, output_file, result, notOdt>>

\* element['type'] == 'heading'
OdtHeading ==
    /\ pc = "odt_body" /\ body_idx < Len(parsed_data.body_elements)
    /\ LET element == parsed_data.body_elements[body_idx + 1]
       IN /\ element.type = "heading"
          /\ doc' = doc \o <<PText("Heading", element.text), BlankPara>>
          /\ log' = Append(log, LogLine("Adding heading", element.text))
    /\ body_idx' = body_idx + 1
    /\ UNCHANGED <<pc, parsed_data, ref_idx, output_file, result, notOdt>>

\* element['type'] == 'paragraph'
OdtParagraph ==
    /\ pc = "odt_body" /\ body_idx < Len(parsed_data.body_elements)
    /\ LET element == parsed_data.body_elements[body_idx + 1]
       IN /\ element.type = "paragraph"
          /\ doc' = doc \o <<Para("BodyText", PieceNodes(element.content)), BlankPara>>
    /\ body_idx' = body_idx + 1
    /\ UNCHANGED <<pc, parsed_data, ref_idx, log, output_file, result, notOdt>>

\* element['type'] == 'table'
OdtTable ==
    /\ pc = "odt_body" /\ body_idx < Len(parsed_data.body_elements)
    /\ LET element == parsed_data.body_elements[body_idx + 1]
       IN /\ element.type = "table"
          /\ doc' = IF TableTruthy(element.content)
                    THEN doc \o <<OdtTableOf(element.content.rows), BlankPara>>
                    ELSE doc
          /\ log' = Append(log, LogLine("Adding table to the document", <<>>))
    /\ body_idx' = body_idx + 1
    /\ UNCHANGED <<pc, parsed_data, ref_idx, output_file, result, notOdt>>

\* The body is rendered; `if parsed_data["references"]` adds the heading.
OdtRefsSection ==
    /\ pc = "odt_body" /\ body_idx = Len(parsed_data.body_elements)
    /\ IF parsed_data.references # <<>>
       THEN /\ doc' = doc \o <<BlankPara, PText("Heading", S_References), BlankPara>>
            /\ log' = Append(log, LogLine("Adding references to the document", <<>>))
       ELSE UNCHANGED <<doc, log>>
    /\ pc' = "odt_refs"
    /\ UNCHANGED <<parsed_data, body_idx, ref_idx, output_file, result, notOdt>>

\* One iteration of the references loop in which nothing raises.
OdtRefOk ==
    /\ pc = "odt_refs" /\ ref_idx < Len(parsed_data.references)
    /\ LET ref == parsed_data.references[ref_idx + 1]
       IN /\ doc' = doc \o <<ReferenceParagraph(ref), BlankPara>>
          /\ log' = Append(log, LogLine("Adding reference", ref.text))
    /\ ref_idx' = ref_idx + 1
    /\ UNCHANGED <<pc, parsed_data, body_idx, output_file, result, notOdt>>

\* One iteration in which the statement `at` raises: the inner except logs
\* the error and the loop goes on with the next reference.
OdtRefFail(at) ==
    /\ pc = "odt_refs" /\ ref_idx < Len(parsed_data.references)
    /\ LET ref == parsed_data.references[ref_idx + 1]
       IN /\ doc' = doc \o AddedBeforeFailure(ref, at)
          /\ log' = log
                    \o (IF at # "log" THEN <<LogLine("Adding reference", ref.text)>> ELSE <<>>)
                    \o <<LogLine("Error adding reference", [at |-> at, ref |-> ref.id])>>
    /\ ref_idx' = ref_idx + 1
    /\ UNCHANGED <<pc, parsed_data, body_idx, output_file, result, notOdt>>

\* doc.save(output_file) succeeds.
OdtSave ==
    /\ pc = "odt_refs" /\ ref_idx = Len(parsed_data.references)
    /\ output_file' = [exists |-> TRUE, complete |-> TRUE, doc |-> doc]
    /\ log' = log \o <<LogLine("Saving ODT file", <<>>), LogLine("ODT file created", <<>>)>>
    /\ pc' = "done"
    /\ UNCHANGED <<parsed_data, doc, body_idx, ref_idx, result, notOdt>>

\* doc.save raises: the outer except logs it; the file is absent or partial.
OdtSaveFail ==
    /\ pc = "odt_refs" /\ ref_idx = Len(parsed_data.references)
    /\ output_file' \in {NoFile, [exists |-> TRUE, complete |-> FALSE, doc |-> <<>>]}
    /\ log' = log \o <<LogLine("Saving ODT file", <<>>),
                       LogLine("Error creating ODT file", [at |-> "save", ref |-> None])>>
    /\ pc' = "done"
    /\ UNCHANGED <<parsed_data, doc, body_idx, ref_idx, result, notOdt>>

\* A statement outside the references try block raises: the outer except logs
\* it and create_odt returns without saving.
OdtRaise ==
    /\ pc \in {"odt_start", "odt_body"}
    /\ log' = Append(log, LogLine("Error creating ODT file", [at |-> "render", ref |-> None]))
    /\ pc' = "done"
    /\ UNCHANGED <<parsed_data, doc, body_idx, ref_idx, output_file, result, notOdt>>

NextOdt ==
    \/ OdtStart
    \/ OdtHeading
    \/ OdtParagraph
    \/ OdtTable
    \/ OdtRefsSection
    \/ OdtRefOk
    \/ \E at \in RefFailPoints : OdtRefFail(at)
    \/ OdtSave
    \/ OdtSaveFail
    \/ OdtRaise

SpecOdt == InitOdt /\ [][NextOdt]_vars
\* The statement at which the paragraph of reference i failed, by the error
\* line the inner except printed for it; "ok" when it printed none.
FailedAt(i) ==
    LET id == parsed_data.references[i].id
        errs == {k \in 1..Len(log) :
                    log[k].msg = "Error adding reference" /\ log[k].arg.ref = id}
    IN IF errs = {} THEN "ok" ELSE log[CHOOSE k \in errs : TRUE].arg.at

\* create_odt went through its outer except clause for a failure that is not
\* one of a reference paragraph.
OuterFailure ==
    \E k \in 1..Len(log) :
        log[k].msg = "Error creating ODT file" /\ log[k].arg.at \in {"render", "save"}

RECURSIVE ExpectedRefSection(_, _)
\* The references section after its heading, for the first n references.
ExpectedRefSection(refs, n) ==
    IF n = 0 THEN <<>>
    ELSE ExpectedRefSection(refs, n - 1)
         \o (IF FailedAt(n) = "ok" THEN <<ReferenceParagraph(refs[n]), BlankPara>>
             ELSE IF FailedAt(n) = "blank" THEN <<ReferenceParagraph(refs[n])>>
             ELSE <<>>)

\* An element of the document that carries something of reference ref.
Mentions(e, ref) ==
    /\ e.el = "P"
    /\ \E n \in 1..Len(e.nodes) :
          \/ e.nodes[n].node \in {"bookmark-start", "bookmark-end"} /\ e.nodes[n].name = ref.id
          \/ e.nodes[n].node = "text" /\ e.nodes[n].text = ref.text \o S_Bibitem

\* C9: a reference whose paragraph fails to be built or attached leaves nothing
\* in the document; the other references keep their bookmarked paragraph and
\* blank line, in source order, right after the References heading; and the
\* document is saved.
C9_OnlyFailedReferenceSkipped ==
    (pc = "done" /\ ~OuterFailure) =>
        /\ output_file.exists
        /\ output_file.complete
        /\ LET d == output_file.doc
               refs == parsed_data.references
               section == <<BlankPara, PText("Heading", S_References), BlankPara>>
                          \o ExpectedRefSection(refs, Len(refs))
           IN /\ refs # <<>> =>
                    /\ Len(d) >= Len(section)
                    /\ SubSeq(d, Len(d) - Len(section) + 1, Len(d)) = section
              /\ \A i \in 1..Len(refs) :
                    FailedAt(i) \notin {"ok", "blank"} =>
                        \A k \in 1..Len(d) : ~Mentions(d[k], refs[i])
              /\ \A i \in 1..Len(refs) :
                    FailedAt(i) = "ok" =>
                        \E k \in 1..(Len(d) - 1) :
                            d[k] = ReferenceParagraph(refs[i]) /\ d[k + 1] = BlankPara

\* The second of three references failed while its text was added; the first
\* and the third are in the saved document.
C9_Witness ==
    /\ pc = "done"
    /\ ~OuterFailure
    /\ Len(parsed_data.references) >= 3
    /\ FailedAt(1) = "ok"
    /\ FailedAt(2) = "addText"
    /\ FailedAt(3) = "ok"
    /\ output_file.exists
    /\ output_file.complete
    /\ \E k \in 1..Len(output_file.doc) :
          output_file.doc[k] = ReferenceParagraph(parsed_data.references[3])
\* ---------------------------------------------------- process_pdfs_to_odt
S_DotPdf == <<".", "p", "d", "f">>
S_DotTeiXml == <<".", "t", "e", "i", ".", "x", "m", "l">>
S_DotOdt == <<".", "o", "d", "t">>

\* The PDF files that may lie under the source folder: two of them share the
\* file name, in different directories.
PdfPaths ==
    {[dir |-> "source", name |-> <<"a">> \o S_DotPdf],
     [dir |-> "source/sub", name |-> <<"a">> \o S_DotPdf],
     [dir |-> "source", name |-> <<"b">> \o S_DotPdf]}

RECURSIVE LastDot(_, _)
\* The position of the last '.' among the first n characters of name, or 0.
LastDot(name, n) ==
    IF n = 0 THEN 0 ELSE IF name[n] = "." THEN n ELSE LastDot(name, n - 1)

\* Path(name).stem: the name without its last suffix.
PathStem(name) ==
    LET i == LastDot(name, Len(name))
    IN IF i <= 1 THEN name ELSE SubSeq(name, 1, i - 1)

\* TEI_FOLDER / f"{pdf_file.stem}.tei.xml"
TeiNameOf(pdf_file) == PathStem(pdf_file.name) \o S_DotTeiXml

\* OUTPUT_FOLDER / f"{tei_file.stem}.odt"
OdtNameOf(tei_name) == PathStem(tei_name) \o S_DotOdt

TeiNames == {TeiNameOf(p) : p \in PdfPaths}

OdtNames == {OdtNameOf(t) : t \in TeiNames}

\* A markup file: the PDF whose extraction it holds and whether it parses.
TeiFile(pdf_file, parses) == [exists |-> TRUE, of |-> pdf_file, parses |-> parses]

\* An output file: complete or cut short, and the markup file it renders.
OdtFile(tei_name, complete) == [exists |-> TRUE, complete |-> complete, doc |-> tei_name]

\* The intermediate folders a sweep may find: markup files left by earlier
\* sweeps (of a PDF of that stem), output files complete or cut short.
TeiFolders ==
    [TeiNames -> {NoFile} \cup {TeiFile(q, b) : q \in PdfPaths, b \in BOOLEAN}]

OutputFolders ==
    {f \in [OdtNames -> {NoFile} \cup {OdtFile(t, c) : t \in TeiNames, c \in BOOLEAN}] :
        \A n \in OdtNames : f[n].exists => OdtNameOf(f[n].doc) = n}

\* `if tei_file.exists()` that never finds the file.
TeiCachedNever(tei_name) == FALSE

\* tei_file.exists()
TeiCached(tei_name) == tei_folder[tei_name].exists

\* output_file.exists()
OdtCached(odt_name) == output_folder[odt_name].exists

\* An exception that leaves the function instead of being caught.
Uncaught(cur) == "aborted"

\* `except Exception as e: log(...)` : the function returns to its caller,
\* which goes on where it was.
Caught(cur) == cur

notSweep == <<result, vRefs, vAuthors, vPara, vBody, vOdt>>

InitSweep ==
    /\ pc = "find"
    /\ source_folder \in SUBSET PdfPaths
    /\ tei_folder \in {f \in TeiFolders :
                          \A n \in TeiNames : f[n].exists => TeiNameOf(f[n].of) = n}
    /\ output_folder \in OutputFolders
    /\ pdf_files = {}
    /\ tei_files = {}
    /\ posted = {}
    /\ written = {}
    /\ folders_at_start = <<tei_folder, output_folder>>
    /\ log = <<>>
    /\ result = ReturnedNone
    /\ RefsIdle
    /\ AuthorsIdle
    /\ ParaIdle
    /\ BodyIdle
    /\ parsed_data = ReturnedNone
    /\ doc = <<>>
    /\ body_idx = 0
    /\ ref_idx = 0
    /\ output_file = NoFile

\* pdf_files = find_pdfs(SOURCE_FOLDER)
FindPdfs ==
    /\ pc = "find"
    /\ pdf_files' = source_folder
    /\ log' = Append(log, LogLine("Found PDF files in source folder", Cardinality(source_folder)))
    /\ pc' = "convert"
    /\ UNCHANGED <<source_folder, tei_folder, output_folder, tei_files, posted, written,
                   folders_at_start, notSweep>>

\* The markup file is there: the conversion is skipped.
SkipConversion(pdf_file) ==
    /\ pc = "convert" /\ pdf_file \in pdf_files
    /\ TeiCached(TeiNameOf(pdf_file))
    /\ log' = Append(log, LogLine("TEI file already exists, skipping conversion", pdf_file.name))
    /\ pdf_files' = pdf_files \ {pdf_file}
    /\ UNCHANGED <<pc, source_folder, tei_folder, output_folder, tei_files, posted, written,
                   folders_at_start, notSweep>>

\* convert_pdf_to_tei posts the PDF and writes the answer, which may or may
\* not be markup that parses.
ConvertOk(pdf_file, parses) ==
    /\ pc = "convert" /\ pdf_file \in pdf_files
    /\ ~TeiCached(TeiNameOf(pdf_file))
    /\ posted' = posted \cup {pdf_file}
    /\ tei_folder' = [tei_folder EXCEPT ![TeiNameOf(pdf_file)] = TeiFile(pdf_file, parses)]
    /\ written' = written \cup {TeiNameOf(pdf_file)}
    /\ log' = Append(log, LogLine("Converted PDF to TEI", pdf_file))
    /\ pdf_files' = pdf_files \ {pdf_file}
    /\ UNCHANGED <<pc, source_folder, output_folder, tei_files, folders_at_start, notSweep>>

\* convert_pdf_to_tei raises while opening the PDF, in the request (timeout,
\* bad status) or while writing the markup file, which is then cut short.
ConvertFail(pdf_file, at) ==
    /\ pc = "convert" /\ pdf_file \in pdf_files
    /\ ~TeiCached(TeiNameOf(pdf_file))
    /\ posted' = IF at = "open" THEN posted ELSE posted \cup {pdf_file}
    /\ IF at = "write"
       THEN /\ tei_folder' = [tei_folder EXCEPT ![TeiNameOf(pdf_file)] = TeiFile(pdf_file, FALSE)]
            /\ written' = written \cup {TeiNameOf(pdf_file)}
       ELSE UNCHANGED <<tei_folder, written>>
    /\ log' = Append(log, LogLine("Error converting PDF to TEI", pdf_file))
    /\ pdf_files' = pdf_files \ {pdf_file}
    /\ pc' = Caught(pc)
    /\ UNCHANGED <<source_folder, output_folder, tei_files, folders_at_start, notSweep>>

\* tei_files = TEI_FOLDER.glob("*.tei.xml")
GlobTei ==
    /\ pc = "convert" /\ pdf_files = {}
    /\ tei_files' = {n \in TeiNames : tei_folder[n].exists}
    /\ pc' = "render"
    /\ UNCHANGED <<source_folder, tei_folder, output_folder, pdf_files, posted, written,
                   folders_at_start, log, notSweep>>

\* parse_tei returns None: the markup file gives no output.
ParseFail(tei_name) ==
    /\ pc = "render" /\ tei_name \in tei_files
    /\ ~tei_folder[tei_name].parses
    /\ log' = Append(log, LogLine("Error parsing TEI file", tei_name))
    /\ tei_files' = tei_files \ {tei_name}
    /\ pc' = Caught(pc)
    /\ UNCHANGED <<source_folder, tei_folder, output_folder, pdf_files, posted, written,
                   folders_at_start, notSweep>>

\* The output file is there: the rendering is skipped.
SkipOdt(tei_name) ==
    /\ pc = "render" /\ tei_name \in tei_files
    /\ tei_folder[tei_name].parses
    /\ OdtCached(OdtNameOf(tei_name))
    /\ log' = Append(log, LogLine("ODT file already exists, skipping ODT creation", tei_name))
    /\ tei_files' = tei_files \ {tei_name}
    /\ UNCHANGED <<pc, source_folder, tei_folder, output_folder, pdf_files, posted, written,
                   folders_at_start, notSweep>>

\* create_odt renders and saves the document.
CreateOdtOk(tei_name) ==
    /\ pc = "render" /\ tei_name \in tei_files
    /\ tei_folder[tei_name].parses
    /\ ~OdtCached(OdtNameOf(tei_name))
    /\ output_folder' = [output_folder EXCEPT ![OdtNameOf(tei_name)] = OdtFile(tei_name, TRUE)]
    /\ written' = written \cup {OdtNameOf(tei_name)}
    /\ log' = Append(log, LogLine("ODT file created", OdtNameOf(tei_name)))
    /\ tei_files' = tei_files \ {tei_name}
    /\ UNCHANGED <<pc, source_folder, tei_folder, pdf_files, posted, folders_at_start,
                   notSweep>>

\* create_odt raises while rendering (no file) or while saving (a file cut
\* short); its except clause logs the error.
CreateOdtFail(tei_name, at) ==
    /\ pc = "render" /\ tei_name \in tei_files
    /\ tei_folder[tei_name].parses
    /\ ~OdtCached(OdtNameOf(tei_name))
    /\ IF at = "save"
       THEN /\ output_folder' =
                   [output_folder EXCEPT ![OdtNameOf(tei_name)] = OdtFile(tei_name, FALSE)]
            /\ written' = written \cup {OdtNameOf(tei_name)}
       ELSE UNCHANGED <<output_folder, written>>
    /\ log' = Append(log, LogLine("Error creating ODT file", OdtNameOf(tei_name)))
    /\ tei_files' = tei_files \ {tei_name}
    /\ pc' = Caught(pc)
    /\ UNCHANGED <<source_folder, tei_folder, pdf_files, posted, folders_at_start, notSweep>>

\* The second loop is over: process_pdfs_to_odt returns.
SweepReturn ==
    /\ pc = "render" /\ tei_files = {}
    /\ pc' = "done"
    /\ UNCHANGED <<source_folder, tei_folder, output_folder, pdf_files, tei_files, posted,
                   written, folders_at_start, log, notSweep>>

NextSweep ==
    \/ FindPdfs
    \/ \E p \in PdfPaths : SkipConversion(p)
    \/ \E p \in PdfPaths, b \in BOOLEAN : ConvertOk(p, b)
    \/ \E p \in PdfPaths, at \in {"open", "post", "write"} : ConvertFail(p, at)
    \/ GlobTei
    \/ \E t \in TeiNames : ParseFail(t)
    \/ \E t \in TeiNames : SkipOdt(t)
    \/ \E t \in TeiNames : CreateOdtOk(t)
    \/ \E t \in TeiNames, at \in {"render", "save"} : CreateOdtFail(t, at)
    \/ SweepReturn

SpecSweep == InitSweep /\ [][NextSweep]_vars
Logged(msg, arg) == \E k \in 1..Len(log) : log[k].msg = msg /\ log[k].arg = arg

LoggedMsg(msg) == \E k \in 1..Len(log) : log[k].msg = msg

\* Every source PDF had its markup file and the output file of that markup
\* file when the sweep started.
PdfsCachedAtStart ==
    \A p \in source_folder :
        /\ folders_at_start[1][TeiNameOf(p)].exists
        /\ folders_at_start[2][OdtNameOf(TeiNameOf(p))].exists

\* Every markup file of the intermediate folder had its output file when the
\* sweep started.
MarkupRenderedAtStart ==
    \A t \in TeiNames :
        folders_at_start[1][t].exists => folders_at_start[2][OdtNameOf(t)].exists

NothingDone ==
    /\ posted = {}
    /\ written = {}
    /\ <<tei_folder, output_folder>> = folders_at_start

\* C6 as claimed: when every source PDF has its markup file and its output
\* file at the start, the sweep posts nothing and writes nothing.
C6_NoWorkWhenPdfsCached ==
    (pc = "done" /\ PdfsCachedAtStart) => NothingDone

\* C6 amended: when every source PDF has its markup file and every markup
\* file of the intermediate folder has its output file at the start, the sweep
\* posts nothing and writes nothing, at any point of the sweep.
C6_NoWorkWhenAllCached ==
    (PdfsCachedAtStart /\ MarkupRenderedAtStart) => NothingDone

\* A finished sweep over a source PDF and a markup file without PDF, all
\* cached: it only logged the two kinds of skip.
C6_Witness ==
    /\ pc = "done"
    /\ PdfsCachedAtStart /\ MarkupRenderedAtStart
    /\ source_folder # {}
    /\ \E t \in TeiNames :
          /\ folders_at_start[1][t].exists
          /\ \A p \in source_folder : TeiNameOf(p) # t
    /\ LoggedMsg("TEI file already exists, skipping conversion")
    /\ LoggedMsg("ODT file already exists, skipping ODT creation")
    /\ ~LoggedMsg("Error parsing TEI file")
    /\ NothingDone

\* C7: no failure of an extraction, a parse or a rendering ends the sweep: it
\* goes on until it returns, by then every source PDF was taken (posted,
\* tried, or skipped as cached) and every markup file that parses, had no
\* output and whose rendering did not fail has its complete output file.
C7_FailureNeverStopsSweep ==
    /\ pc \notin {"done", "aborted"} => ENABLED NextSweep
    /\ pc \in {"done", "aborted"} =>
          /\ pc = "done"
          /\ pdf_files = {} /\ tei_files = {}
          /\ \A p \in source_folder :
                \/ p \in posted
                \/ Logged("Error converting PDF to TEI", p)
                \/ Logged("TEI file already exists, skipping conversion", p.name)
          /\ \A t \in TeiNames :
                (/\ tei_folder[t].exists
                 /\ tei_folder[t].parses
                 /\ ~folders_at_start[2][OdtNameOf(t)].exists
                 /\ ~Logged("Error creating ODT file", OdtNameOf(t)))
                => output_folder[OdtNameOf(t)] = OdtFile(t, TRUE)

\* A finished sweep in which a conversion failed and a later one succeeded,
\* and a parse or a rendering failed and a later rendering succeeded.
C7_Witness ==
    /\ pc = "done"
    /\ \E i, j \in 1..Len(log) :
          /\ i < j
          /\ log[i].msg = "Error converting PDF to TEI"
          /\ log[j].msg = "Converted PDF to TEI"
    /\ \E i, j \in 1..Len(log) :
          /\ i < j
          /\ log[i].msg \in {"Error parsing TEI file", "Error creating ODT file"}
          /\ log[j].msg = "ODT file created"

\* C8: after a sweep without failed extraction, every source PDF has its
\* markup file, holding the extraction of that PDF, and two source PDFs never
\* share a markup file.
C8_OneMarkupPerPdf ==
    (pc = "done" /\ ~LoggedMsg("Error converting PDF to TEI")) =>
        /\ \A p \in source_folder :
              /\ tei_folder[TeiNameOf(p)].exists
              /\ tei_folder[TeiNameOf(p)].of = p
        /\ \A p, q \in source_folder : p # q => TeiNameOf(p) # TeiNameOf(q)
====
